---- MODULE Spec2Model ----
(***************************************************************************)
(* A model of markstopdf.js (Marks to PDF 1.0): start-up validation, the   *)
(* column-reference resolver columnToIndex, and the row-by-row sequencer   *)
(* generateStudentPdf / moveToNext with its asynchronous completions (the  *)
(* timer set by moveToNext, the PDF document's 'end' event, the sendMail   *)
(* callback).                                                              *)
(*                                                                         *)
(* JavaScript strings are sequences of one-character strings; JavaScript   *)
(* arrays are 0-based, TLA+ sequences 1-based, so csv[i] of the source is  *)
(* csv[i + 1] here.                                                        *)
(***************************************************************************)
EXTENDS Integers, Sequences, FiniteSets, TLC

VARIABLES
    mailMode,          \* l.53   0, 1 or 2
    argvIds,           \* l.47   argv.ids, a JavaScript value
    idsToInclude,      \* l.57   null or the --ids list split on commas
    columns,           \* l.70   config.columns, an object of column references
    maxMarksRowIndex,  \* l.70   config.maxMarksRowIndex
    csv,               \* l.361  the rows of the CSV file
    phase,             \* where the script is outside the row iteration
    mailer,            \* l.413  "none", "open" or "closed"
    numSuccessful,     \* l.414
    timers,            \* pending setTimeout callbacks of l.200, each holding its studentRowIndex
    rendering,         \* PDF documents whose 'end' event (l.316) is still to come
    sending,           \* sendMail calls whose callback (l.334) is still to come
    stdout,            \* characters written with process.stdout.write
    logLines,          \* lines written with log()
    sent,              \* messages handed to mailer.sendMail
    rendered,          \* rows for which printer.createPdfKitDocument was called
    visited,           \* history: the rows generateStudentPdf was invoked on, in order,
                       \*          each with the branch of the function that ended the call
    completions,       \* history: the completion signals received ('end' events in
                       \*          PDF-only mode, sendMail callbacks when mailing)
    column,            \* the argument of a lone columnToIndex call
    colResult          \* its result

vars == <<mailMode, argvIds, idsToInclude, columns, maxMarksRowIndex, csv, phase,
          mailer, numSuccessful, timers, rendering, sending, stdout, logLines,
          sent, rendered, visited, completions, column, colResult>>

seqVars == <<mailMode, argvIds, idsToInclude, columns, maxMarksRowIndex, csv, phase,
             mailer, numSuccessful, timers, rendering, sending, stdout, logLines,
             sent, rendered, visited, completions>>

-----------------------------------------------------------------------------
(* Bounds of the model *)

MaxStudentRows == 3
MaxMarksRowIndex == 2
MaxColLen == 3

-----------------------------------------------------------------------------
(* JavaScript values and string primitives *)

Str(s) == [t |-> "string", s |-> s]
Undefined == [t |-> "undefined", s |-> <<>>]
Num == [t |-> "number", s |-> <<>>]

WhiteSpace == {" "}
Digits == <<"0", "1", "2", "3", "4", "5", "6", "7", "8", "9">>
UpperCase == <<"A", "B", "C", "D", "E", "F", "G", "H", "I", "J", "K", "L", "M",
               "N", "O", "P", "Q", "R", "S", "T", "U", "V", "W", "X", "Y", "Z">>

IsDigit(c) == \E d \in 1..10 : Digits[d] = c
DigitVal(c) == (CHOOSE d \in 1..10 : Digits[d] = c) - 1

\* String.prototype.charCodeAt for the characters the model uses:
\* '@' is 64, 'A'..'Z' are 65..90, '[' is 91, 'a' is 97.
CharCode(c) ==
    IF \E k \in 1..26 : UpperCase[k] = c
    THEN 64 + (CHOOSE k \in 1..26 : UpperCase[k] = c)
    ELSE IF c = "@" THEN 64
    ELSE IF c = "[" THEN 91
    ELSE 97

RECURSIVE TrimStart(_)
TrimStart(s) ==
    IF s # <<>> /\ Head(s) \in WhiteSpace THEN TrimStart(Tail(s)) ELSE s

RECURSIVE TrimEnd(_)
TrimEnd(s) ==
    IF s # <<>> /\ s[Len(s)] \in WhiteSpace
    THEN TrimEnd(SubSeq(s, 1, Len(s) - 1)) ELSE s

\* String.prototype.trim
Trim(s) == TrimEnd(TrimStart(s))

\* s.indexOf(c) === -1
LacksChar(s, c) == \A k \in 1..Len(s) : s[k] # c

\* list.indexOf(x) !== -1
Includes(list, x) == \E k \in 1..Len(list) : list[k] = x

RECURSIVE DigitPrefixLen(_)
DigitPrefixLen(s) ==
    IF s # <<>> /\ IsDigit(Head(s)) THEN 1 + DigitPrefixLen(Tail(s)) ELSE 0

RECURSIVE DecimalValue(_)
DecimalValue(s) ==
    IF s = <<>> THEN 0
    ELSE 10 * DecimalValue(SubSeq(s, 1, Len(s) - 1)) + DigitVal(s[Len(s)])

\* parseInt(s, 10): leading white space skipped, an optional sign, then the
\* longest prefix of decimal digits; NaN when there is no digit.
ParseInt(s) ==
    LET t == TrimStart(s)
        signed == t # <<>> /\ Head(t) \in {"+", "-"}
        u == IF signed THEN Tail(t) ELSE t
        n == DigitPrefixLen(u)
        v == DecimalValue(SubSeq(u, 1, n))
    IN  IF n = 0 THEN [nan |-> TRUE, val |-> 0]
        ELSE [nan |-> FALSE, val |-> IF signed /\ Head(t) = "-" THEN 0 - v ELSE v]

RECURSIVE SplitComma(_)
\* String.prototype.split(',')
SplitComma(s) ==
    IF LacksChar(s, ",") THEN <<s>>
    ELSE LET k == CHOOSE j \in 1..Len(s) :
                      s[j] = "," /\ \A h \in 1..(j - 1) : s[h] # ","
         IN  <<SubSeq(s, 1, k - 1)>> \o SplitComma(SubSeq(s, k + 1, Len(s)))

\* l.57: argv.ids ? argv.ids.split(',') : null
IdsToInclude(ids) ==
    IF ids.t = "string" /\ ids.s # <<>>
    THEN [isNull |-> FALSE, list |-> SplitComma(ids.s)]
    ELSE [isNull |-> TRUE, list |-> <<>>]

-----------------------------------------------------------------------------
(* columnToIndex, l.124-144 *)

InvalidColumnReference == -1

columnToIndex(col) ==
    IF col.t = "string" /\ Len(col.s) = 1
    THEN LET result == CharCode(col.s[1]) - 65
         IN  IF result >= 0 /\ result <= 26 THEN result
             ELSE InvalidColumnReference
    ELSE IF col.t = "string" /\ Len(col.s) = 2
    THEN LET lowDigit == CharCode(col.s[2]) - 65
             highDigit == CharCode(col.s[1]) - 64
         IN  IF lowDigit >= 0 /\ lowDigit <= 26 /\ highDigit >= 0 /\ highDigit <= 26
             THEN lowDigit + highDigit * 26
             ELSE InvalidColumnReference
    ELSE InvalidColumnReference


-----------------------------------------------------------------------------
(* Inputs: the configuration, the command line and the CSV file *)

\* obj.hasOwnProperty(key)
HasOwnProperty(obj, key) == key \in DOMAIN obj

\* obj.key, undefined when the object has no such property
Prop(obj, key) == IF key \in DOMAIN obj THEN obj[key] ELSE Undefined

\* config.columns of a configuration that maps the student-email column.
\* criteriaSections is flattened to the column references of its criteria.
ColumnsWithEmail ==
    [studentNumber |-> Str(<<"A">>), studentFirstName |-> Str(<<"B">>),
     studentLastName |-> Str(<<"C">>), studentEmail |-> Str(<<"D">>),
     criteriaSections |-> <<Str(<<"E">>), Str(<<"F">>)>>,
     totalMarks |-> Str(<<"G">>), personalFeedback |-> Str(<<"A", "A">>)]

\* the same configuration without a columns.studentEmail key
ColumnsWithoutEmail ==
    [studentNumber |-> Str(<<"A">>), studentFirstName |-> Str(<<"B">>),
     studentLastName |-> Str(<<"C">>),
     criteriaSections |-> <<Str(<<"E">>), Str(<<"F">>)>>,
     totalMarks |-> Str(<<"G">>), personalFeedback |-> Str(<<"A", "A">>)]

\* config.subjectCoordEmail
subjectCoordEmail == <<"c", "@", "u">>

\* Rows of the CSV file: student number, first name, last name, email
\* (columns A to D), as the cells csv-parse delivers.
BlankRow    == << <<>>, <<>>, <<>>, <<>> >>
NoNameRow   == << <<"9", "9", "9", "9">>, <<>>, <<>>, <<"s", "@", "u">> >>
NotANumRow  == << <<"n", "a">>, <<"A", "l">>, <<>>, <<"a", "@", "u">> >>
SmallNumRow == << <<"1", "2", "3">>, <<>>, <<"L", "i">>, <<"b">> >>
ValidRow    == << <<"1", "0", "0", "0", "0">>, <<"A", "l">>, <<"L", "i">>, <<"a", "@", "u">> >>
PaddedRow   == << <<" ", "1", "2", "3", "4", "5">>, <<"B", "o">>, <<>>, <<"b", "@", "u">> >>
NoAtRow     == << <<"1", "2", "3", "4", "5">>, <<"C", "y">>, <<"X", "i">>, <<"X", "c", "y">> >>

StudentRows == {BlankRow, NoNameRow, NotANumRow, SmallNumRow, ValidRow, PaddedRow,
                NoAtRow}

\* Values of argv.ids: absent, "12345", "123,10000" and " 12345,na " (entries
\* that carry white space)
IdsArgs ==
    {Undefined,
     Str(<<"1", "2", "3", "4", "5">>),
     Str(<<"1", "2", "3", ",", "1", "0", "0", "0", "0">>),
     Str(<<" ", "1", "2", "3", "4", "5", ",", "n", "a", " ">>)}

\* Arguments of a lone columnToIndex call: every string of at most MaxColLen
\* of these characters, and two values that are not strings
ColChars == {"@", "A", "B", "Z", "[", "a"}
ColumnInputs ==
    {Undefined, Num} \cup
    {Str(s) : s \in UNION {[1..n -> ColChars] : n \in 0..MaxColLen}}

NoLine == <<>>
Line(kind, row, to, n) == [kind |-> kind, row |-> row, to |-> to, n |-> n]

Init ==
    /\ mailMode \in {0, 1, 2}
    /\ argvIds \in IdsArgs
    /\ idsToInclude = IdsToInclude(argvIds)
    /\ columns \in {ColumnsWithEmail, ColumnsWithoutEmail}
    /\ maxMarksRowIndex \in 1..MaxMarksRowIndex
    /\ \E n \in 0..MaxStudentRows :
         \E students \in [1..n -> StudentRows] :
            csv = [k \in 1..maxMarksRowIndex |-> BlankRow] \o students
    /\ phase = "startup"
    /\ mailer = "none"
    /\ numSuccessful = 0
    /\ timers = {}
    /\ rendering = {}
    /\ sending = {}
    /\ stdout = <<>>
    /\ logLines = <<>>
    /\ sent = <<>>
    /\ rendered = <<>>
    /\ visited = <<>>
    /\ completions = <<>>
    /\ column = Undefined
    /\ colResult = [done |-> FALSE, value |-> 0]


-----------------------------------------------------------------------------
(* Start-up, l.81-102 and l.413-435 *)

\* l.97-102: the keys config.columns must hold for the run to start
RequiredColumns(mode) ==
    {"studentNumber", "studentFirstName", "studentLastName", "criteriaSections",
     "totalMarks", "personalFeedback"}
    \cup (IF mode > 0 THEN {"studentEmail"} ELSE {})

Startup ==
    /\ phase = "startup"
    /\ IF \E key \in RequiredColumns(mailMode) : ~HasOwnProperty(columns, key)
       THEN /\ phase' = "exited"
            /\ logLines' = logLines
       ELSE IF mailMode = 0
       THEN /\ phase' = "reading"
            /\ logLines' = logLines \o <<Line("legend", -1, NoLine, 0),
                                         Line("blank", -1, NoLine, 0)>>
       ELSE IF mailMode = 2 /\ idsToInclude.isNull
       THEN /\ phase' = "prompt"
            /\ logLines' = logLines
       ELSE /\ phase' = "password"
            /\ logLines' = logLines
    /\ UNCHANGED <<mailMode, argvIds, idsToInclude, columns, maxMarksRowIndex, csv,
                   mailer, numSuccessful, timers, rendering, sending, stdout,
                   sent, rendered, visited, completions, column, colResult>>

\* l.425-432: the answer to 'To proceed, type "sure"'
PromptAnswered ==
    /\ phase = "prompt"
    /\ \E sure \in BOOLEAN : phase' = IF sure THEN "password" ELSE "aborted"
    /\ UNCHANGED <<mailMode, argvIds, idsToInclude, columns, maxMarksRowIndex, csv,
                   mailer, numSuccessful, timers, rendering, sending, stdout,
                   logLines, sent, rendered, visited, completions, column, colResult>>

\* l.397-401: the password arrives, the transport is created and verified
PasswordEntered ==
    /\ phase = "password"
    /\ mailer' = "open"
    /\ phase' = "verifying"
    /\ UNCHANGED <<mailMode, argvIds, idsToInclude, columns, maxMarksRowIndex, csv,
                   numSuccessful, timers, rendering, sending, stdout,
                   logLines, sent, rendered, visited, completions, column, colResult>>

\* l.402-409: the callback of mailer.verify
VerifyCallback ==
    /\ phase = "verifying"
    /\ \E error \in BOOLEAN : phase' = IF error THEN "verifyFailed" ELSE "reading"
    /\ UNCHANGED <<mailMode, argvIds, idsToInclude, columns, maxMarksRowIndex, csv,
                   mailer, numSuccessful, timers, rendering, sending, stdout,
                   logLines, sent, rendered, visited, completions, column, colResult>>

-----------------------------------------------------------------------------
(* generateStudentPdf and moveToNext, l.189-357 *)

MinStudentNumber == 10000

\* a cursor that steps over a row
NextStudentRowIndexSkipping(i) == i + 2

\* l.191: ++studentRowIndex
NextStudentRowIndex(i) == i + 1

\* l.193-196: the summary line, its verb chosen by the mail mode
SummaryLine(n) ==
    Line(IF mailMode = 0 THEN "Done. Generated PDFs for"
         ELSE IF mailMode = 2 THEN "Done. Sent email to"
         ELSE "Done. Sent test emails relating to", -1, NoLine, n)

\* l.190-202, called with the log as the caller leaves it (lines), the counter
\* as the caller leaves it (n) and the timers still pending (tm)
MoveToNext(i, lines, n, tm) ==
    LET next == NextStudentRowIndex(i)
    IN  /\ numSuccessful' = n
        /\ IF next >= Len(csv)
           THEN /\ logLines' = lines \o <<Line("blank", -1, NoLine, 0), SummaryLine(n)>>
                /\ mailer' = IF mailer = "open" THEN "closed" ELSE mailer
                /\ timers' = tm
                /\ phase' = "done"
           ELSE /\ logLines' = lines
                /\ mailer' = mailer
                /\ timers' = tm \cup {next}
                /\ phase' = "iterating"

\* a check that forgets the minimum
InvalidStudentNumberNaNOnly(asInt) == asInt.nan

\* l.214: isNaN(studentNumberAsInt) || studentNumberAsInt < 10000
InvalidStudentNumber(asInt) == asInt.nan \/ asInt.val < MinStudentNumber

\* a check that looks at the first name alone
NoNameFirstOnly(first, last) == first = <<>>

\* l.215: !studentFirstName && !studentLastName
NoName(first, last) == first = <<>> /\ last = <<>>

\* a check that validates addresses only when mailing to students
InvalidEmailModeTwoOnly(mode, email) == mode = 2 /\ LacksChar(email, "@")

\* l.232: mailMode > 0 && studentEmail.indexOf("@") === -1
InvalidEmail(mode, email) == mode > 0 /\ LacksChar(email, "@")

\* a membership test on the untrimmed student number
IncludedUntrimmed(ids, studentNumber) == ids.isNull \/ Includes(ids.list, studentNumber)

\* l.221, l.233, l.244: !idsToInclude || idsToInclude.indexOf(studentNumber.trim()) !== -1
Included(ids, studentNumber) == ids.isNull \/ Includes(ids.list, Trim(studentNumber))

\* a recipient that is always the student
MessageToStudent(mode, studentEmail) == studentEmail

\* l.322: mailMode === 2 ? studentEmail : config.subjectCoordEmail
MessageTo(mode, studentEmail) == IF mode = 2 THEN studentEmail ELSE subjectCoordEmail

\* a test that overlooks rejected recipients
SendSucceededIgnoringRejected(error, rejected) == ~error

\* l.335: !error && !success.rejected.length
SendSucceeded(error, rejected) == ~error /\ rejected = 0

\* studentRow[index]
Cell(row, index) == row[index + 1]

\* an uncaught exception ends the process
Throw(i, tm) ==
    /\ visited' = Append(visited, [row |-> i, branch |-> "throw"])
    /\ phase' = "crashed"
    /\ timers' = tm
    /\ UNCHANGED <<mailer, numSuccessful, rendering, stdout, logLines, rendered>>

\* a branch of generateStudentPdf that ends in moveToNext(1)
Skip(i, tm, branch, out, lines) ==
    /\ visited' = Append(visited, [row |-> i, branch |-> branch])
    /\ stdout' = out
    /\ UNCHANGED <<rendering, rendered>>
    /\ MoveToNext(i, lines, numSuccessful, tm)

\* l.256-311: building docDefinition resolves the criteria, total-marks and
\* personal-feedback columns
DocDefinitionThrows ==
    \/ \E k \in 1..Len(columns.criteriaSections) :
          columnToIndex(columns.criteriaSections[k]) = InvalidColumnReference
    \/ columnToIndex(columns.totalMarks) = InvalidColumnReference
    \/ columnToIndex(columns.personalFeedback) = InvalidColumnReference

\* l.189-357 up to pdfDoc.end(); i is studentRowIndex, tm the timers still pending
GenerateStudentPdf(i, tm) ==
    LET studentRow == csv[i + 1]
        numberIndex == columnToIndex(Prop(columns, "studentNumber"))
        firstIndex == columnToIndex(Prop(columns, "studentFirstName"))
        lastIndex == columnToIndex(Prop(columns, "studentLastName"))
        emailIndex == columnToIndex(Prop(columns, "studentEmail"))
    IN  IF InvalidColumnReference \in {numberIndex, firstIndex, lastIndex, emailIndex}
        THEN Throw(i, tm)
        ELSE
        LET studentNumber == Cell(studentRow, numberIndex)
            studentFirstName == Cell(studentRow, firstIndex)
            studentLastName == Cell(studentRow, lastIndex)
            studentEmail == Cell(studentRow, emailIndex)
            studentNumberAsInt == ParseInt(studentNumber)
        IN  IF InvalidStudentNumber(studentNumberAsInt)
            THEN IF NoName(studentFirstName, studentLastName)
                 THEN Skip(i, tm, "ignore", stdout, logLines)
                 ELSE IF mailMode = 0
                 THEN Skip(i, tm, "invalidNumber", Append(stdout, [ch |-> "x", row |-> i]),
                           logLines)
                 ELSE IF Included(idsToInclude, studentNumber)
                 THEN Skip(i, tm, "invalidNumber", stdout,
                           Append(logLines, Line("Skipping: invalid student number",
                                                 i, studentEmail, 0)))
                 ELSE Skip(i, tm, "invalidNumber", stdout, logLines)
            ELSE IF InvalidEmail(mailMode, studentEmail)
            THEN IF Included(idsToInclude, studentNumber)
                 THEN Skip(i, tm, "invalidEmail", stdout,
                           Append(logLines, Line("Skipping: invalid email address",
                                                 i, studentEmail, 0)))
                 ELSE Skip(i, tm, "invalidEmail", stdout, logLines)
            ELSE IF ~Included(idsToInclude, studentNumber)
            THEN IF mailMode = 0
                 THEN Skip(i, tm, "filtered", Append(stdout, [ch |-> "S", row |-> i]),
                           logLines)
                 ELSE Skip(i, tm, "filtered", stdout, logLines)
            ELSE IF DocDefinitionThrows
            THEN Throw(i, tm)
            ELSE /\ visited' = Append(visited, [row |-> i, branch |-> "process"])
                 /\ rendered' = Append(rendered, i)
                 /\ rendering' = rendering \cup {i}
                 /\ timers' = tm
                 /\ phase' = "iterating"
                 /\ UNCHANGED <<mailer, numSuccessful, stdout, logLines>>

\* l.377-386: the CSV parser's 'finish' handler
CsvFinish ==
    /\ phase = "reading"
    /\ IF Len(csv) < maxMarksRowIndex + 1
       THEN /\ phase' = "fatal"
            /\ UNCHANGED <<mailer, numSuccessful, timers, rendering, stdout, logLines,
                           rendered, visited>>
       ELSE GenerateStudentPdf(maxMarksRowIndex, timers)
    /\ UNCHANGED <<mailMode, argvIds, idsToInclude, columns, maxMarksRowIndex, csv,
                   sending, sent, completions, column, colResult>>

\* l.200: a timer set by moveToNext fires
TimerFires ==
    /\ \E i \in timers : GenerateStudentPdf(i, timers \ {i})
    /\ UNCHANGED <<mailMode, argvIds, idsToInclude, columns, maxMarksRowIndex, csv,
                   sending, sent, completions, column, colResult>>

\* l.316-354: the PDF document's 'end' event
PdfEnd ==
    \E i \in rendering :
       LET studentEmail == Cell(csv[i + 1], columnToIndex(Prop(columns, "studentEmail")))
       IN  /\ rendering' = rendering \ {i}
           /\ IF mailMode > 0
              THEN /\ sent' = Append(sent, [to |-> MessageTo(mailMode, studentEmail),
                                            row |-> i])
                   /\ sending' = sending \cup {[to |-> MessageTo(mailMode, studentEmail),
                                                row |-> i]}
                   /\ UNCHANGED <<stdout, completions, numSuccessful, logLines, mailer,
                                  timers, phase>>
              ELSE /\ stdout' = Append(stdout, [ch |-> ".", row |-> i])
                   /\ completions' = Append(completions,
                          [row |-> i, error |-> FALSE, rejected |-> 0])
                   /\ MoveToNext(i, logLines, numSuccessful + 1, timers)
                   /\ UNCHANGED <<sent, sending>>
           /\ UNCHANGED <<mailMode, argvIds, idsToInclude, columns, maxMarksRowIndex,
                          csv, rendered, visited, column, colResult>>

\* l.334-348: the callback of mailer.sendMail
SendMailCallback ==
    \E message \in sending : \E error \in BOOLEAN, rejected \in 0..1 :
       /\ error => rejected = 0
       /\ sending' = sending \ {message}
       /\ completions' = Append(completions,
              [row |-> message.row, error |-> error, rejected |-> rejected])
       /\ IF SendSucceeded(error, rejected)
          THEN MoveToNext(message.row,
                          Append(logLines, Line("Sent email to", message.row, message.to, 0)),
                          numSuccessful + 1, timers)
          ELSE MoveToNext(message.row,
                          logLines \o <<Line("FAILED to send email to", message.row,
                                             message.to, 0),
                                        Line("detail", message.row, NoLine, 0),
                                        Line("blank", -1, NoLine, 0)>>,
                          numSuccessful, timers)
       /\ UNCHANGED <<mailMode, argvIds, idsToInclude, columns, maxMarksRowIndex, csv,
                      rendering, stdout, sent, rendered, visited, column, colResult>>

Next ==
    \/ Startup
    \/ PromptAnswered
    \/ PasswordEntered
    \/ VerifyCallback
    \/ CsvFinish
    \/ TimerFires
    \/ PdfEnd
    \/ SendMailCallback

Spec == Init /\ [][Next]_vars


-----------------------------------------------------------------------------
(* A lone call of columnToIndex on an arbitrary argument *)

ColInit ==
    /\ column \in ColumnInputs
    /\ colResult = [done |-> FALSE, value |-> 0]
    /\ mailMode = 0
    /\ argvIds = Undefined
    /\ idsToInclude = IdsToInclude(Undefined)
    /\ columns = ColumnsWithEmail
    /\ maxMarksRowIndex = 1
    /\ csv = <<BlankRow>>
    /\ phase = "column"
    /\ mailer = "none"
    /\ numSuccessful = 0
    /\ timers = {}
    /\ rendering = {}
    /\ sending = {}
    /\ stdout = <<>>
    /\ logLines = <<>>
    /\ sent = <<>>
    /\ rendered = <<>>
    /\ visited = <<>>
    /\ completions = <<>>

ResolveColumn ==
    /\ phase = "column"
    /\ ~colResult.done
    /\ colResult' = [done |-> TRUE, value |-> columnToIndex(column)]
    /\ UNCHANGED <<column, seqVars>>

ColNext == ResolveColumn

ColSpec == ColInit /\ [][ColNext]_vars

-----------------------------------------------------------------------------
(* Vocabulary of the properties.  The fields of a row are read here straight *)
(* from its cells (columns A to D of the configuration), the student-number *)
(* test and the filter membership are restated from the specification, so    *)
(* that none of them follows the sequencer's own operators.                  *)

NumberOf(i) == csv[i + 1][1]
FirstNameOf(i) == csv[i + 1][2]
LastNameOf(i) == csv[i + 1][3]
EmailOf(i) == csv[i + 1][4]

BadNumber(i) == ParseInt(NumberOf(i)).nan \/ ParseInt(NumberOf(i)).val < 10000
Nameless(i) == FirstNameOf(i) = <<>> /\ LastNameOf(i) = <<>>
HasAt(i) == \E k \in 1..Len(EmailOf(i)) : EmailOf(i)[k] = "@"
FilterSet == {idsToInclude.list[k] : k \in 1..Len(idsToInclude.list)}
InFilter(i) == Trim(NumberOf(i)) \in FilterSet
Mailing == mailMode \in {1, 2}

\* the rows the classifier has decided, i.e. whose field look-ups succeeded
Classified == {k \in DOMAIN visited : visited[k].branch # "throw"}

StdoutOf(i) == {k \in DOMAIN stdout : stdout[k].row = i}
LogOf(i) == {k \in DOMAIN logLines : logLines[k].row = i}
WasRendered(i) == \E k \in DOMAIN rendered : rendered[k] = i
WasSent(i) == \E k \in DOMAIN sent : sent[k].row = i
NeverProduced(i) == ~WasRendered(i) /\ ~WasSent(i)
Successes == {k \in DOMAIN completions :
                 ~completions[k].error /\ completions[k].rejected = 0}
Failures == DOMAIN completions \ Successes
SummaryLines == {k \in DOMAIN logLines : logLines[k].kind \in
                    {"Done. Generated PDFs for", "Done. Sent email to",
                     "Done. Sent test emails relating to"}}
InFlight == Cardinality(timers) + Cardinality(rendering) + Cardinality(sending)

-----------------------------------------------------------------------------
\* C1: in mail mode 1 every message handed to sendMail is addressed to
\* config.subjectCoordEmail whatever the row's email cell holds, in mail mode 2
\* to the email cell of the row it was built for, and in mail mode 0 no
\* message is handed over at all.
C1_MailRouting ==
    /\ mailMode = 0 => sent = <<>> /\ sending = {}
    /\ \A k \in DOMAIN sent :
          /\ mailMode = 1 => sent[k].to = subjectCoordEmail
          /\ mailMode = 2 => sent[k].to = EmailOf(sent[k].row)
    /\ \A m \in sending : \E k \in DOMAIN sent : sent[k] = m

\* a run in mode 1 has sent two messages for rows whose own addresses differ
\* from the coordinator's
C1_Witness ==
    /\ mailMode = 1
    /\ Len(sent) >= 2
    /\ \A k \in DOMAIN sent : EmailOf(sent[k].row) # subjectCoordEmail

\* C2: numSuccessful counts exactly the completions that succeeded (a send
\* without error and without rejected recipients, or a finished render in
\* PDF-only mode), each row at most once and only rows that were processed; a
\* failed send is followed by the next row or by the summary; the summary
\* reports that count.
C2_SuccessCounter ==
    /\ numSuccessful = Cardinality(Successes)
    /\ \A j, k \in DOMAIN completions :
          completions[j].row = completions[k].row => j = k
    /\ \A k \in DOMAIN completions :
          \E v \in DOMAIN visited :
             visited[v].row = completions[k].row /\ visited[v].branch = "process"
    /\ \A k \in Failures :
          LET next == completions[k].row + 1
          IN  \/ next \in timers
              \/ \E v \in DOMAIN visited : visited[v].row = next
              \/ next >= Len(csv) /\ phase = "done"
    /\ \A k \in SummaryLines : logLines[k].n = Cardinality(Successes)

\* a mailing run reached its summary after a failed send, a rejected send and
\* a successful one
C2_Witness ==
    /\ Mailing
    /\ phase = "done"
    /\ \E k \in Failures : completions[k].error
    /\ \E k \in Failures : completions[k].rejected > 0
    /\ Successes # {}

\* C4: rows are visited one at a time in ascending order from
\* maxMarksRowIndex: never more than one timer, render or send is pending, the
\* k-th visit is row maxMarksRowIndex + k - 1, a row that was processed has
\* completed (render, and send when mailing) before the next row is visited,
\* and at the summary every row up to the last has been visited.
C4_OneAtATime ==
    /\ InFlight <= 1
    /\ \A k \in DOMAIN visited : visited[k].row = maxMarksRowIndex + k - 1
    /\ \A k \in DOMAIN visited :
          (k < Len(visited) \/ timers # {}) /\ visited[k].branch = "process"
             => /\ visited[k].row \notin rendering
                /\ \A m \in sending : m.row # visited[k].row
                /\ \E c \in DOMAIN completions : completions[c].row = visited[k].row
                /\ Mailing => WasSent(visited[k].row)
    /\ phase = "done" => Len(visited) = Len(csv) - maxMarksRowIndex

\* a mailing run that processed two rows and skipped a third is at its summary
C4_Witness ==
    /\ Mailing
    /\ phase = "done"
    /\ Len(visited) = 3
    /\ Cardinality({k \in DOMAIN visited : visited[k].branch = "process"}) = 2

-----------------------------------------------------------------------------
\* The step in which generateStudentPdf decides row i
Decides(i) ==
    /\ Len(visited') = Len(visited) + 1
    /\ visited'[Len(visited')].row = i
    /\ visited'[Len(visited')].branch # "throw"

DecidedBranch == visited'[Len(visited')].branch

\* moveToNext after row i: the timer for row i + 1, or the summary after the last row
Advances(i) ==
    IF i + 1 < Len(csv)
    THEN timers' = {i + 1} /\ phase' = "iterating" /\ logLines' = logLines
    ELSE /\ timers' = {}
         /\ phase' = "done"
         /\ Len(logLines') = Len(logLines) + 2
         /\ \A k \in (Len(logLines) + 1)..Len(logLines') : logLines'[k].row = -1

-----------------------------------------------------------------------------
IterationStarted == visited # <<>>
SummaryEmitted == SummaryLines # {}

\* C3: once the iteration has started, and with every timer, render and send
\* completing, the summary line is eventually written; it is written once,
\* only when every row from maxMarksRowIndex to the last has been visited and
\* nothing is pending, and nothing is visited, rendered or sent after it.
\* Stated on finite runs: a started iteration that has no step left to take
\* has written its summary, and a written summary leaves no step to take.
C3_SummaryReached ==
    /\ IterationStarted /\ ~ENABLED Next => SummaryEmitted
    /\ Cardinality(SummaryLines) <= 1
    /\ SummaryEmitted => /\ Len(visited) = Len(csv) - maxMarksRowIndex
                         /\ visited[Len(visited)].row = Len(csv) - 1
                         /\ InFlight = 0
                         /\ ~ENABLED Next

\* C10: a PDF-only run whose configuration maps no student-email column
\* passes start-up validation and never ends on a column-reference error.
C10_EmailColumnOptional ==
    mailMode = 0 /\ ~HasOwnProperty(columns, "studentEmail")
       => phase \notin {"exited", "crashed"}

-----------------------------------------------------------------------------
\* Exactly one log line of the given kind about row i, and no other line about it
OneLine(i, kind) ==
    /\ Cardinality(LogOf(i)) = 1
    /\ \A k \in LogOf(i) : logLines[k].kind = kind

\* Exactly one character c written for row i
OneChar(i, c) ==
    /\ Cardinality(StdoutOf(i)) = 1
    /\ \A k \in StdoutOf(i) : stdout[k].ch = c

NamedBadNumber(i) == ~Nameless(i) /\ BadNumber(i)

EmailLacksAt(i) == Mailing /\ ~BadNumber(i) /\ ~HasAt(i)

\* C7 as stated: when mailing, a decided row that passed the student-number
\* check and whose email has no "@" took the invalid-email branch, was never
\* rendered or emailed, and was logged with "invalid email address".
C7_AsStated ==
    \A k \in Classified :
       LET i == visited[k].row
       IN  EmailLacksAt(i)
              => /\ visited[k].branch = "invalidEmail"
                 /\ NeverProduced(i)
                 /\ OneLine(i, "Skipping: invalid email address")

\* C7 amended: as stated, except that the line is written only if there is no
\* filter or the filter holds the row's trimmed student number; otherwise the
\* row is skipped without any output.
C7_InvalidEmail ==
    \A k \in Classified :
       LET i == visited[k].row
       IN  EmailLacksAt(i)
              => /\ visited[k].branch = "invalidEmail"
                 /\ NeverProduced(i)
                 /\ StdoutOf(i) = {}
                 /\ idsToInclude.isNull \/ InFilter(i)
                       => OneLine(i, "Skipping: invalid email address")
                 /\ ~idsToInclude.isNull /\ ~InFilter(i) => LogOf(i) = {}

\* in mode 1 a row with a valid number and an address without "@" was logged
\* as skipped, and the run went on to send the next row's message
C7_Witness ==
    /\ mailMode = 1
    /\ \E k \in Classified :
          /\ EmailLacksAt(visited[k].row)
          /\ LogOf(visited[k].row) # {}
          /\ \E m \in DOMAIN sent : sent[m].row = visited[k].row + 1

Absent(i) == ~idsToInclude.isNull /\ ~InFilter(i)

-----------------------------------------------------------------------------
IsUpper(c) == \E k \in 1..26 : UpperCase[k] = c
Position(c) == CHOOSE k \in 1..26 : UpperCase[k] = c

\* spreadsheet numbering: A..Z are 0..25, a two-letter reference is
\* 26 * (first letter, A = 1) + (second letter, A = 0), anything else is
\* no column reference
SpreadsheetIndex(col) ==
    IF col.t = "string" /\ Len(col.s) = 1 /\ IsUpper(col.s[1])
    THEN Position(col.s[1]) - 1
    ELSE IF col.t = "string" /\ Len(col.s) = 2 /\ IsUpper(col.s[1]) /\ IsUpper(col.s[2])
    THEN 26 * Position(col.s[1]) + (Position(col.s[2]) - 1)
    ELSE InvalidColumnReference

\* C9: columnToIndex agrees with spreadsheet numbering on every argument, and
\* fails on every argument that is not one or two letters A-Z.
C9_ColumnToIndex ==
    colResult.done => colResult.value = SpreadsheetIndex(column)

====
